---- MODULE Spec2Model ----
(***************************************************************************)
(* The batch loader of app/load_data.py: tidy_chunk (normalisation of one  *)
(* chunk of a CSV file) and main (file discovery, chunked reads, one       *)
(* transaction per chunk: stage, INSERT .. ON CONFLICT DO NOTHING, DROP).  *)
(* The database is modelled with PostgreSQL's semantics for the statements *)
(* that main issues.                                                       *)
(***************************************************************************)
EXTENDS Integers, Sequences, FiniteSets, TLC

\* ---------------------------------------------------------------- bounds
\* total number of CSV data lines on disk
MaxRows == 2

\* ---------------------------------------------------------------- values
\* A cell of a DataFrame or of a table: a tagged value.  k is the lexical
\* shape of a source string or the type of a converted value.
S(kind, a, b, c) == [k |-> kind, x |-> a, y |-> b, z |-> c]

\* source cells, as pd.read_csv(dtype=str) delivers them
NaN == S("nan", 0, 0, 0)              \* empty / missing cell
Txt(i) == S("txt", i, 0, 0)           \* free text number i
Dmy(d, m, y) == S("dmy", d, m, y)     \* the text "dd/mm/yyyy"
Hm(h, m) == S("hm", h, m, 0)          \* the text "hh:mm"
Num(i, f) == S("num", i, f, 0)        \* the decimal text "i" (f = 0) or "i.f"

\* Python / SQL values
PyNone == S("none", 0, 0, 0)
Null == S("null", 0, 0, 0)            \* NaT, NaN, <NA>, None: SQL NULL
Date(y, m, d) == S("date", y, m, d)
Time(h, m, s) == S("time", h, m, s)
Float(i, f) == S("float", i, f, 0)
Int64(i) == S("int", i, 0, 0)
Text(i) == S("text", i, 0, 0)

\* ---------------------------------------------------------------- columns
COLUMN_MAP ==
  [ accident_index |-> "accident_index",
    date |-> "accident_date",
    time |-> "accident_time",
    latitude |-> "latitude",
    longitude |-> "longitude",
    accident_severity |-> "severity",
    number_of_casualties |-> "number_of_casualties",
    number_of_vehicles |-> "number_of_vehicles",
    road_type |-> "road_type",
    speed_limit |-> "speed_limit",
    weather_conditions |-> "weather",
    light_conditions |-> "light_conditions",
    urban_or_rural_area |-> "urban_or_rural" ]

KnownCols == DOMAIN COLUMN_MAP

\* the columns of a source file, in header order; police_force has no typed
\* destination field
ColOrder ==
  << "accident_index", "date", "time", "latitude", "longitude",
     "accident_severity", "number_of_casualties", "number_of_vehicles",
     "road_type", "speed_limit", "weather_conditions", "light_conditions",
     "urban_or_rural_area", "police_force" >>

AllSourceCols == { ColOrder[i] : i \in DOMAIN ColOrder }

\* a header with accident_index and only some of the known columns
SubsetHeader ==
  { "accident_index", "date", "time", "latitude", "longitude",
    "accident_severity", "number_of_casualties", "number_of_vehicles",
    "road_type", "speed_limit" }

Headers == { AllSourceCols, SubsetHeader }

\* the columns of the accidents table, as CREATE_SQL declares them
TableCols ==
  { "accident_index", "accident_date", "accident_time", "latitude",
    "longitude", "severity", "number_of_casualties", "number_of_vehicles",
    "road_type", "speed_limit", "weather", "light_conditions",
    "urban_or_rural", "raw_json" }

\* the columns the INSERT .. SELECT of main names
InsertCols ==
  { "accident_index", "accident_date", "accident_time", "latitude",
    "longitude", "severity", "number_of_casualties", "number_of_vehicles",
    "road_type", "speed_limit", "weather", "light_conditions",
    "urban_or_rural", "raw_json" }

FloatCols == { "latitude", "longitude" }
IntCols == { "severity", "number_of_casualties", "number_of_vehicles", "speed_limit" }

\* ---------------------------------------------------------------- input
\* the CSV data lines: key is the accident_index, v names the content.
\* A and B are well formed and differ; bad has an impossible date and time,
\* non-numeric and missing numbers; frac has 2.5 casualties
Lines ==
  { [ key |-> 1, v |-> "A" ], [ key |-> 1, v |-> "B" ], [ key |-> 2, v |-> "A" ],
    [ key |-> 2, v |-> "bad" ], [ key |-> 1, v |-> "frac" ] }

\* the values of the chunksize global
ChunkSizes == { 1, 2 }

\* pd.read_csv(dtype=str): the cell of column c of a CSV line
CellOf(line, c) ==
  CASE c = "accident_index" -> Txt(line.key)
    [] c = "date" -> IF line.v = "B" THEN Dmy(6, 3, 2023)
                     ELSE IF line.v = "bad" THEN Dmy(31, 2, 2023)
                     ELSE Dmy(5, 3, 2023)
    [] c = "time" -> IF line.v = "bad" THEN Hm(25, 99) ELSE Hm(14, 7)
    [] c = "latitude" -> IF line.v = "bad" THEN Txt(90) ELSE Num(51, 5)
    [] c = "longitude" -> IF line.v = "bad" THEN NaN ELSE Num(0, 12)
    [] c = "accident_severity" -> IF line.v = "bad" THEN Txt(91) ELSE Num(2, 0)
    [] c = "number_of_casualties" -> IF line.v = "frac" THEN Num(2, 5) ELSE Num(1, 0)
    [] c = "number_of_vehicles" -> Num(2, 0)
    [] c = "road_type" -> IF line.v = "B" THEN Txt(12) ELSE Txt(11)
    [] c = "speed_limit" -> IF line.v = "bad" THEN NaN ELSE Num(30, 0)
    [] c = "weather_conditions" -> Txt(13)
    [] c = "light_conditions" -> Txt(14)
    [] c = "urban_or_rural_area" -> Txt(15)
    [] c = "police_force" -> IF line.v = "B" THEN NaN ELSE Txt(16)

\* one record of a chunk: column name -> cell, for the columns of the header
read_csv_row(line, header) == [ c \in header |-> CellOf(line, c) ]

\* ---------------------------------------------------------------- helpers
RECURSIVE SetToSortedSeq(_)
SetToSortedSeq(T) ==
  IF T = {} THEN << >>
  ELSE LET m == CHOOSE a \in T : \A b \in T : a <= b
       IN << m >> \o SetToSortedSeq(T \ { m })

RECURSIVE FilterCols(_, _)
FilterCols(order, cols) ==
  IF order = << >> THEN << >>
  ELSE IF Head(order) \in cols
       THEN << Head(order) >> \o FilterCols(Tail(order), cols)
       ELSE FilterCols(Tail(order), cols)

Min(a, b) == IF a <= b THEN a ELSE b

\* ---------------------------------------------------------------- tidy_chunk
\* df.replace({np.nan: None}).to_dict(orient="records"), one record
ReplaceNaN(row) == [ c \in DOMAIN row |-> IF row[c] = NaN THEN PyNone ELSE row[c] ]

\* json.dumps: a JSON object text, one member per column in column order
JsonValue(v) ==
  CASE v = PyNone -> [ j |-> "null", s |-> PyNone ]
    [] v = NaN -> [ j |-> "NaN", s |-> NaN ]
    [] OTHER -> [ j |-> "string", s |-> v ]

json_dumps(rec) ==
  LET cols == FilterCols(ColOrder, DOMAIN rec)
  IN [ i \in 1 .. Len(cols) |->
         [ name |-> cols[i], val |-> JsonValue(rec[cols[i]]) ] ]

\* json.loads: the dict of a JSON object text
json_loads(text) ==
  [ c \in { text[i].name : i \in DOMAIN text } |->
      LET i == CHOOSE n \in DOMAIN text :
                 text[n].name = c /\ \A q \in DOMAIN text : text[q].name = c => q <= n
      IN IF text[i].val.j = "null" THEN PyNone ELSE text[i].val.s ]

\* the payload captured after the column selection of line 67
raw_json_after_projection(row) ==
  json_dumps(ReplaceNaN([ c \in DOMAIN row \cap KnownCols |-> row[c] ]))

\* lines 64-65 and 91: the raw payload of one record
raw_json_of(row) == json_dumps(ReplaceNaN(row))

IsLeap(y) == (y % 4 = 0 /\ y % 100 # 0) \/ y % 400 = 0

DaysIn(m, y) ==
  IF m = 2 THEN (IF IsLeap(y) THEN 29 ELSE 28)
  ELSE IF m \in { 4, 6, 9, 11 } THEN 30 ELSE 31

\* pd.to_datetime(dayfirst=True, errors="coerce").dt.date on the cells the
\* input holds: a dd/mm/yyyy text, free text or a missing value
to_date(cell) ==
  CASE cell.k = "dmy" ->
         IF cell.y \in 1 .. 12 /\ cell.x \in 1 .. DaysIn(cell.y, cell.z)
         THEN Date(cell.z, cell.y, cell.x) ELSE Null
    [] cell.k = "txt" -> Null
    [] cell.k = "nan" -> Null

\* pd.to_datetime(format="%H:%M", errors="coerce").dt.time
to_time(cell) ==
  IF cell.k = "hm" /\ cell.x \in 0 .. 23 /\ cell.y \in 0 .. 59
  THEN Time(cell.x, cell.y, 0) ELSE Null

\* pd.to_numeric(errors="coerce")
to_numeric(cell) ==
  IF cell.k = "num" THEN Float(cell.x, cell.y) ELSE Null

\* .astype("Int64") accepts a value: a missing value or an integral number
Int64Castable(v) == v = Null \/ v.y = 0

\* .astype("Int64") of one value
astype_Int64(v) == IF v = Null THEN Null ELSE Int64(v.x)

\* a text column of the projection: the string, None for a missing value
to_text(cell) == IF cell.k = "nan" THEN Null ELSE Text(cell.x)

\* line 67: the known columns the chunk has
Projected(header) == { c \in KnownCols : c \in header }

\* lines 87-89 raise TypeError when a converted value is not integral
TidyRaises(chunk) ==
  \E i \in DOMAIN chunk :
    \E c \in Projected(DOMAIN chunk[i]) :
      COLUMN_MAP[c] \in IntCols /\ ~Int64Castable(to_numeric(chunk[i][c]))

\* the typed value of destination column d from source cell
Coerce(d, cell) ==
  CASE d = "accident_date" -> to_date(cell)
    [] d = "accident_time" -> to_time(cell)
    [] d \in FloatCols -> to_numeric(cell)
    [] d \in IntCols -> astype_Int64(to_numeric(cell))
    [] OTHER -> to_text(cell)

\* one row of the frame tidy_chunk returns
tidy_row(row) ==
  LET src(d) == CHOOSE c \in KnownCols : COLUMN_MAP[c] = d
      dest == { COLUMN_MAP[c] : c \in Projected(DOMAIN row) }
  IN [ d \in dest \cup { "raw_json" } |->
         IF d = "raw_json" THEN raw_json_of(row) ELSE Coerce(d, row[src(d)]) ]

tidy_chunk(chunk) == [ i \in DOMAIN chunk |-> tidy_row(chunk[i]) ]

\* ---------------------------------------------------------------- database
\* the key of a table row
KeyOf(r) == r["accident_index"]

KeySet(tbl) == { KeyOf(tbl[i]) : i \in DOMAIN tbl }

\* a plain INSERT into a table without primary key
InsertNoConflict(tbl, rows) ==
  [ i \in DOMAIN rows |-> [ c \in InsertCols |-> rows[i][c] ] ]

\* conflicts found among the rows of the statement only
RECURSIVE SkipSeen(_, _)
SkipSeen(seen, rows) ==
  IF rows = << >> THEN << >>
  ELSE LET r == [ c \in InsertCols |-> Head(rows)[c] ]
       IN IF KeyOf(r) \in seen
          THEN SkipSeen(seen, Tail(rows))
          ELSE << r >> \o SkipSeen(seen \cup { KeyOf(r) }, Tail(rows))

InsertIgnoringTable(tbl, rows) == SkipSeen({}, rows)

\* conflicts found against the rows of the table only
InsertTableOnly(tbl, rows) ==
  SelectSeq(InsertNoConflict(tbl, rows), LAMBDA r : KeyOf(r) \notin KeySet(tbl))

\* INSERT INTO accidents .. SELECT .. FROM _accidents_stage
\* ON CONFLICT (accident_index) DO NOTHING: the rows the statement adds to
\* tbl, scanning the stage in heap order; a row whose key is in the table, or
\* was added earlier by the same statement, is skipped
RECURSIVE InsertSelect(_, _)
InsertSelect(tbl, rows) ==
  IF rows = << >> THEN << >>
  ELSE LET r == [ c \in InsertCols |-> Head(rows)[c] ]
       IN IF KeyOf(r) \in KeySet(tbl)
          THEN InsertSelect(tbl, Tail(rows))
          ELSE << r >> \o InsertSelect(tbl \o << r >>, Tail(rows))

\* no table _accidents_stage, and nobody creating or dropping one
NoStage == [ owner |-> 0, cols |-> {}, rows |-> << >>, dropped |-> FALSE ]

\* ---------------------------------------------------------------- state
Procs == { 1, 2 }
Paths == { 2019, 2020 }

VARIABLES
  mode,         \* "seq": a load run starts when no other is running; "conc": any time
  bound,        \* the module globals DATA_GLOB and chunksize are defined
  chunksize,    \* the chunksize global
  disk,         \* path -> [header, lines] of the files DATA_GLOB matches
  tableExists,  \* the accidents table exists in the database
  accidents,    \* the committed rows of accidents, in heap order
  stage,        \* the table _accidents_stage
  pc,           \* per load run: the position in main
  files,        \* per load run: the local files
  fi,           \* per load run: the index of path in files
  pos,          \* per load run: data lines of path already read
  chunk,        \* per load run: the frame read_csv delivered last
  df,           \* per load run: the frame tidy_chunk returned last
  pending,      \* per load run: rows inserted by the open transaction
  per_file,     \* per load run: the local per_file
  total_rows,   \* per load run: the local total_rows
  out,          \* per load run: the lines printed, by kind
  err           \* per load run: the exception that ended main

vars == << mode, bound, chunksize, disk, tableExists, accidents, stage, pc,
           files, fi, pos, chunk, df, pending, per_file, total_rows, out, err >>

env == << mode, bound, chunksize, disk, tableExists >>
locals == << files, fi, pos, chunk, df, per_file, total_rows >>

InTxn == { "to_sql", "execute", "commit" }

Running(p) == pc[p] \notin { "idle", "done", "failed" }

\* the frame of the part of the file after the first n data lines
NextChunk(file, n) ==
  [ i \in 1 .. Min(chunksize, Len(file.lines) - n) |->
      read_csv_row(file.lines[n + i], file.header) ]

\* ---------------------------------------------------------------- initial states
FilesWith(hs, n) == [ header : hs, lines : [ 1 .. n -> Lines ] ]

FilesUpTo(hs, n) == UNION { FilesWith(hs, k) : k \in 0 .. n }

\* the file sets with headers in hs and at most n data lines in all: no file,
\* one file, two files.  Of two files the first has every column: a load run
\* ends at the first chunk of a file that lacks one, whatever file follows.
Disks(hs, n) ==
  { [ p \in {} |-> 0 ] }
  \cup { [ p \in { 2019 } |-> f ] : f \in FilesUpTo(hs, n) }
  \cup UNION { { [ p \in Paths |-> IF p = 2019 THEN f1 ELSE f2 ] :
                   f1 \in FilesWith({ AllSourceCols }, k),
                   f2 \in FilesUpTo(hs, n - k) } : k \in 0 .. n }

\* a row an earlier load left in accidents
OldRow == tidy_row(read_csv_row([ key |-> 1, v |-> "bad" ], AllSourceCols))

InitRuns ==
  /\ stage = NoStage
  /\ pc = [ p \in Procs |-> "idle" ]
  /\ files = [ p \in Procs |-> << >> ]
  /\ fi = [ p \in Procs |-> 0 ]
  /\ pos = [ p \in Procs |-> 0 ]
  /\ chunk = [ p \in Procs |-> << >> ]
  /\ df = [ p \in Procs |-> << >> ]
  /\ pending = [ p \in Procs |-> << >> ]
  /\ per_file = [ p \in Procs |-> 0 ]
  /\ total_rows = [ p \in Procs |-> 0 ]
  /\ out = [ p \in Procs |-> << >> ]
  /\ err = [ p \in Procs |-> "" ]

InitEnv(hs, old) ==
  /\ bound \in BOOLEAN
  /\ chunksize \in ChunkSizes
  /\ disk \in Disks(hs, MaxRows)
  /\ tableExists \in BOOLEAN
  /\ accidents \in IF tableExists THEN { << >> } \cup old ELSE { << >> }

\* a load run starts when no other is running
Init == mode = "seq" /\ InitEnv(Headers, { << OldRow >> }) /\ InitRuns

\* load runs start at any time
InitConc == mode = "conc" /\ InitEnv({ AllSourceCols }, {}) /\ InitRuns

\* ---------------------------------------------------------------- main
\* load runs are numbered in the order they start
CanStart(p) ==
  /\ pc[p] = "idle"
  /\ \A q \in Procs : q < p => pc[q] # "idle" /\ (mode = "seq" => ~Running(q))

\* only the first file that matches
first_match ==
  LET fs == SetToSortedSeq(DOMAIN disk)
  IN IF fs = << >> THEN << >> ELSE << Head(fs) >>

\* line 95: sorted(glob.glob(DATA_GLOB))
sorted_glob == SetToSortedSeq(DOMAIN disk)

\* the test of line 96 left out
NeverNoFiles(fs) == FALSE

\* line 96: not files
NoFiles(fs) == fs = << >>

Fail(p, e) ==
  /\ pc' = [ pc EXCEPT ![p] = "failed" ]
  /\ err' = [ err EXCEPT ![p] = e ]

Say(p, what) == out' = [ out EXCEPT ![p] = Append(@, what) ]

\* line 95, DATA_GLOB undefined: NameError
MainNameError(p) ==
  /\ CanStart(p)
  /\ ~bound
  /\ Fail(p, "NameError")
  /\ UNCHANGED << env, accidents, stage, locals, pending, out >>

\* lines 95-98: no file matches
MainNoFiles(p) ==
  /\ CanStart(p)
  /\ bound
  /\ NoFiles(sorted_glob)
  /\ Say(p, "NoFiles")
  /\ pc' = [ pc EXCEPT ![p] = "done" ]
  /\ UNCHANGED << env, accidents, stage, locals, pending, err >>

\* lines 95-100: the loop over files begins
MainLoop(p) ==
  /\ CanStart(p)
  /\ bound
  /\ ~NoFiles(sorted_glob)
  /\ files' = [ files EXCEPT ![p] = sorted_glob ]
  /\ fi' = [ fi EXCEPT ![p] = 1 ]
  /\ total_rows' = [ total_rows EXCEPT ![p] = 0 ]
  /\ pc' = [ pc EXCEPT ![p] = "file" ]
  /\ UNCHANGED << env, accidents, stage, pos, chunk, df, per_file, pending, out, err >>

\* lines 101-103: the next path
NextFile(p) ==
  /\ pc[p] = "file"
  /\ fi[p] <= Len(files[p])
  /\ Say(p, "Loading")
  /\ per_file' = [ per_file EXCEPT ![p] = 0 ]
  /\ pos' = [ pos EXCEPT ![p] = 0 ]
  /\ pc' = [ pc EXCEPT ![p] = "read" ]
  /\ UNCHANGED << env, accidents, stage, files, fi, chunk, df, total_rows, pending, err >>

\* line 135: the loop over files is over
MainReturn(p) ==
  /\ pc[p] = "file"
  /\ fi[p] > Len(files[p])
  /\ Say(p, "Complete")
  /\ pc' = [ pc EXCEPT ![p] = "done" ]
  /\ UNCHANGED << env, accidents, stage, locals, pending, err >>

CurrentFile(p) == disk[files[p][fi[p]]]

\* lines 104-105: the next chunk, tidied
ReadChunk(p) ==
  /\ pc[p] = "read"
  /\ pos[p] < Len(CurrentFile(p).lines)
  /\ LET c == NextChunk(CurrentFile(p), pos[p])
     IN /\ ~TidyRaises(c)
        /\ chunk' = [ chunk EXCEPT ![p] = c ]
        /\ df' = [ df EXCEPT ![p] = tidy_chunk(c) ]
        /\ pos' = [ pos EXCEPT ![p] = @ + Len(c) ]
  /\ pc' = [ pc EXCEPT ![p] = "begin" ]
  /\ UNCHANGED << env, accidents, stage, files, fi, per_file, total_rows, pending, out, err >>

\* lines 104-105: tidy_chunk raises, main ends with the exception
ReadChunkRaises(p) ==
  /\ pc[p] = "read"
  /\ pos[p] < Len(CurrentFile(p).lines)
  /\ LET c == NextChunk(CurrentFile(p), pos[p])
     IN /\ TidyRaises(c)
        /\ chunk' = [ chunk EXCEPT ![p] = c ]
        /\ pos' = [ pos EXCEPT ![p] = @ + Len(c) ]
  /\ Fail(p, "TypeError")
  /\ UNCHANGED << env, accidents, stage, files, fi, df, per_file, total_rows, pending, out >>

\* line 133: the file is exhausted
EndOfFile(p) ==
  /\ pc[p] = "read"
  /\ pos[p] >= Len(CurrentFile(p).lines)
  /\ Say(p, "Finished")
  /\ fi' = [ fi EXCEPT ![p] = @ + 1 ]
  /\ pc' = [ pc EXCEPT ![p] = "file" ]
  /\ UNCHANGED << env, accidents, stage, files, pos, chunk, df, per_file, total_rows, pending, err >>

\* line 107: ENGINE.begin() opens the transaction
Begin(p) ==
  /\ pc[p] = "begin"
  /\ pc' = [ pc EXCEPT ![p] = "to_sql" ]
  /\ UNCHANGED << env, accidents, stage, locals, pending, out, err >>

\* line 108: to_sql creates _accidents_stage and fills it.  The table is
\* never committed, so has_table finds none; CREATE TABLE waits while another
\* transaction holds the uncommitted catalog entry of the same name.
ToSql(p) ==
  /\ pc[p] = "to_sql"
  /\ stage.owner = 0
  /\ stage' = [ owner |-> p, cols |-> DOMAIN df[p][1], rows |-> df[p], dropped |-> FALSE ]
  /\ pc' = [ pc EXCEPT ![p] = "execute" ]
  /\ UNCHANGED << env, accidents, locals, pending, out, err >>

\* the rows of the failed statement stay, as without a transaction
KeepsInserted(tbl, rows) == tbl \o rows

\* the accidents table a rolled back transaction leaves
RolledBack(tbl, rows) == tbl

\* the exit of the with block on an exception: rollback, and main ends
Abort(p, e) ==
  /\ accidents' = RolledBack(accidents, pending[p])
  /\ stage' = IF stage.owner = p THEN NoStage ELSE stage
  /\ pending' = [ pending EXCEPT ![p] = << >> ]
  /\ Fail(p, e)
  /\ UNCHANGED << env, locals, out >>

\* the statement of lines 109-127 can run
Executable(cols) == tableExists /\ InsertCols \subseteq TableCols /\ InsertCols \subseteq cols

\* lines 109-127: INSERT .. SELECT fails: accidents or a selected column
\* does not exist
ExecuteFails(p) ==
  /\ pc[p] = "execute"
  /\ ~Executable(stage.cols)
  /\ Abort(p, IF tableExists THEN "UndefinedColumn" ELSE "UndefinedTable")

\* lines 109-127: INSERT .. SELECT .. ON CONFLICT DO NOTHING; DROP TABLE
Execute(p) ==
  /\ pc[p] = "execute"
  /\ Executable(stage.cols)
  /\ pending' = [ pending EXCEPT ![p] = InsertSelect(accidents, stage.rows) ]
  /\ stage' = [ stage EXCEPT !.dropped = TRUE ]
  /\ pc' = [ pc EXCEPT ![p] = "commit" ]
  /\ UNCHANGED << env, accidents, locals, out, err >>

\* lines 127-132: the with block commits; the counters advance (per_file
\* stays below the 50000 of the progress line)
Commit(p) ==
  /\ pc[p] = "commit"
  /\ accidents' = accidents \o pending[p]
  /\ stage' = IF stage.dropped THEN NoStage ELSE [ stage EXCEPT !.owner = 0 ]
  /\ pending' = [ pending EXCEPT ![p] = << >> ]
  /\ per_file' = [ per_file EXCEPT ![p] = @ + Len(df[p]) ]
  /\ total_rows' = [ total_rows EXCEPT ![p] = @ + Len(df[p]) ]
  /\ pc' = [ pc EXCEPT ![p] = "read" ]
  /\ UNCHANGED << env, files, fi, pos, chunk, df, out, err >>

\* lines 107-127: the connection is lost inside the transaction
ConnLost(p) ==
  /\ pc[p] \in InTxn
  /\ Abort(p, "OperationalError")

Next ==
  \E p \in Procs :
    \/ MainNameError(p)
    \/ MainNoFiles(p)
    \/ MainLoop(p)
    \/ NextFile(p)
    \/ MainReturn(p)
    \/ ReadChunk(p)
    \/ ReadChunkRaises(p)
    \/ EndOfFile(p)
    \/ Begin(p)
    \/ ToSql(p)
    \/ ExecuteFails(p)
    \/ Execute(p)
    \/ Commit(p)
    \/ ConnLost(p)

Spec == Init /\ [][Next]_vars

SpecConc == InitConc /\ [][Next]_vars

\* ---------------------------------------------------------------- properties
\* the records of all files, in the order main reads them
RECURSIVE FlatRows(_)
FlatRows(fs) ==
  IF fs = << >> THEN << >>
  ELSE LET f == disk[Head(fs)]
       IN [ i \in 1 .. Len(f.lines) |-> read_csv_row(f.lines[i], f.header) ]
          \o FlatRows(Tail(fs))

SourceRows == FlatRows(SetToSortedSeq(DOMAIN disk))

\* the key a record gets in the table
RecordKey(row) == Text(row["accident_index"].x)

SourceKeys == { RecordKey(SourceRows[i]) : i \in DOMAIN SourceRows }

\* the first record with key k that main reads
FirstWith(k) ==
  LET i == CHOOSE n \in DOMAIN SourceRows :
             /\ RecordKey(SourceRows[n]) = k
             /\ \A q \in DOMAIN SourceRows : RecordKey(SourceRows[q]) = k => n <= q
  IN SourceRows[i]

RowSet(tbl) == { tbl[i] : i \in DOMAIN tbl }

IsPrefix(a, b) == Len(a) <= Len(b) /\ \A i \in DOMAIN a : a[i] = b[i]

\* accidents was not empty before the first load run
Preloaded == accidents # << >> /\ accidents[1] = OldRow

UniqueKeys ==
  \A i, j \in DOMAIN accidents :
    KeyOf(accidents[i]) = KeyOf(accidents[j]) => i = j

\* C1: once a load run has completed over the file set, a further run over
\* the same file set inserts nothing: accidents keeps the same rows and the
\* same row count.
C1_RerunInsertsNothing ==
  [][ (\E p \in Procs : pc[p] = "done") => accidents' = accidents ]_vars

\* a second run has completed after the first, both over a non-empty file set
C1_Witness ==
  /\ mode = "seq"
  /\ pc[1] = "done" /\ pc[2] = "done"
  /\ total_rows[1] > 0 /\ total_rows[2] > 0
  /\ Len(accidents) > 1

\* C2: accidents never holds two rows with one accident_index; every row is
\* the row of the first record with its key that main read (or was there
\* before the load); no merge updates or deletes a row of accidents.
C2_FirstWriterWins ==
  /\ [](UniqueKeys
        /\ \A i \in DOMAIN accidents :
             \/ i = 1 /\ accidents[i] = OldRow
             \/ /\ KeyOf(accidents[i]) \in SourceKeys
                /\ accidents[i] = tidy_row(FirstWith(KeyOf(accidents[i]))))
  /\ [][IsPrefix(accidents, accidents')]_vars

\* a run has completed over records that share a key and differ in content
C2_Witness ==
  /\ pc[1] = "done"
  /\ \E i, j \in DOMAIN SourceRows :
       /\ i < j
       /\ RecordKey(SourceRows[i]) = RecordKey(SourceRows[j])
       /\ SourceRows[i] # SourceRows[j]
       /\ tidy_row(SourceRows[i]) \in RowSet(accidents)

\* the parsed payload expected for a record
ExpectedPayload(row) ==
  [ c \in DOMAIN row |-> IF row[c].k = "nan" THEN PyNone ELSE row[c] ]

\* a cell that the conversion of destination column d cannot use
Unusable(d, cell) ==
  CASE d = "accident_date" ->
         ~(cell.k = "dmy" /\ cell.y \in 1 .. 12 /\ cell.x \in 1 .. DaysIn(cell.y, cell.z))
    [] d = "accident_time" -> ~(cell.k = "hm" /\ cell.x < 24 /\ cell.y < 60)
    [] d \in FloatCols -> cell.k # "num"
    [] d \in IntCols -> cell.k # "num" \/ cell.y # 0
    [] OTHER -> cell.k = "nan"

\* the last chunk that run p read is committed
Merged(p) == pc[p] \in { "read", "file", "done" } /\ chunk[p] # << >>

\* C3: tidy_chunk raises no error on an unparsable field; after the merge of
\* a chunk each of its records has a row in accidents, and the row of the
\* record has exactly the unusable fields null.
C3_MalformedFieldsRecovered ==
  \A p \in Procs :
    /\ err[p] # "TypeError"
    /\ Merged(p) =>
         \A i \in DOMAIN chunk[p] :
           \E r \in RowSet(accidents) :
             /\ KeyOf(r) = RecordKey(chunk[p][i])
             /\ json_loads(r["raw_json"]) = ExpectedPayload(chunk[p][i]) =>
                  \A c \in DOMAIN chunk[p][i] \cap KnownCols :
                    Unusable(COLUMN_MAP[c], chunk[p][i][c]) <=> r[COLUMN_MAP[c]] = Null

\* C4: the raw_json of every row tidy_chunk returns parses back to the whole
\* record of the chunk, every column of the header included, a missing value
\* as null, whatever the typed conversions made of the record.
C4_RawPayloadRoundTrip ==
  \A p \in Procs :
    pc[p] \in { "begin" } \cup InTxn =>
      /\ Len(df[p]) = Len(chunk[p])
      /\ \A i \in DOMAIN df[p] :
           json_loads(df[p][i]["raw_json"]) = ExpectedPayload(chunk[p][i])

\* a tidied chunk with a record whose time and latitude did not convert and
\* which has a column without typed field
C4_Witness ==
  \E p \in Procs :
    /\ pc[p] = "begin"
    /\ \E i \in DOMAIN df[p] :
         /\ df[p][i]["accident_time"] = Null
         /\ df[p][i]["latitude"] = Null
         /\ "police_force" \in DOMAIN chunk[p][i]
         /\ json_loads(df[p][i]["raw_json"])["time"] = Hm(25, 99)

TxnErrors == { "UndefinedTable", "UndefinedColumn", "OperationalError" }

\* C5: the step on which a chunk's transaction fails leaves accidents as the
\* last commit left it and leaves no staging table; a failed run reads no
\* further chunk or file.
C5_ChunkAtomicFatal ==
  [][ \A p \in Procs :
        /\ (pc[p] \in InTxn /\ pc'[p] = "failed") =>
             accidents' = accidents /\ stage' = NoStage /\ pending'[p] = << >>
        /\ pc[p] = "failed" =>
             /\ pc'[p] = "failed"
             /\ pos'[p] = pos[p] /\ fi'[p] = fi[p] /\ chunk'[p] = chunk[p]
             /\ total_rows'[p] = total_rows[p] ]_vars

\* a transaction failed after an earlier chunk of the run was committed
C5_Witness ==
  \E p \in Procs :
    /\ pc[p] = "failed"
    /\ err[p] \in TxnErrors
    /\ total_rows[p] > 0
    /\ \E i \in DOMAIN accidents : accidents[i] # OldRow

\* C6: whenever the INSERT of a chunk runs, the accidents table exists.
C6_SchemaBeforeIngestion ==
  \A p \in Procs : pc[p] = "execute" => tableExists

C8_ConcurrentRuns ==
  /\ \A i, j \in DOMAIN accidents :
       i # j => accidents[i]["accident_index"] # accidents[j]["accident_index"]
  /\ \A p \in Procs :
       pc[p] = "failed" =>
         \/ err[p] = "NameError" /\ ~bound
         \/ err[p] = "TypeError" /\ TidyRaises(chunk[p])
         \/ err[p] = "UndefinedTable" /\ ~tableExists
         \/ err[p] = "OperationalError"
  /\ (\A p \in Procs : pc[p] = "done") => KeySet(accidents) = SourceKeys

\* one run holds an uncommitted insert of a key while the other run, in its
\* own transaction, is about to stage a record with the same key
C8_Witness ==
  /\ mode = "conc"
  /\ pc[1] = "commit" /\ pc[2] = "to_sql"
  /\ pending[1] # << >>
  /\ \E i \in DOMAIN df[2] : KeyOf(df[2][i]) \in KeySet(pending[1])

\* C9: a file whose header has accident_index and only some of the known
\* columns loads: with the table there, a chunk of it fails only when
\* tidy_chunk raises or the connection is lost.
C9_SubsetHeadersAccepted ==
  \A p \in Procs :
    ( /\ pc[p] = "failed"
      /\ tableExists
      /\ fi[p] \in DOMAIN files[p]
      /\ "accident_index" \in CurrentFile(p).header
      /\ CurrentFile(p).header \subseteq KnownCols )
    => err[p] \in { "TypeError", "OperationalError" }

\* the chunks of a file after its first n data lines
RECURSIVE ChunksFrom(_, _)
ChunksFrom(file, n) ==
  IF n >= Len(file.lines) THEN << >>
  ELSE << NextChunk(file, n) >> \o ChunksFrom(file, n + Len(NextChunk(file, n)))

RECURSIVE ChunksOfFiles(_)
ChunksOfFiles(fs) ==
  IF fs = << >> THEN << >>
  ELSE ChunksFrom(disk[Head(fs)], 0) \o ChunksOfFiles(Tail(fs))

AllChunks == ChunksOfFiles(SetToSortedSeq(DOMAIN disk))

\* every chunk of the files can be merged
Loadable ==
  \A n \in DOMAIN AllChunks :
    /\ ~TidyRaises(AllChunks[n])
    /\ DOMAIN AllChunks[n][1] = AllSourceCols

\* the table after merging the tidied chunks in the order given, one
\* transaction each
RECURSIVE LoadInOrder(_, _, _)
LoadInOrder(tbl, frames, order) ==
  IF order = << >> THEN tbl
  ELSE LoadInOrder(tbl \o InsertSelect(tbl, frames[Head(order)]), frames, Tail(order))

Orders(n) ==
  { f \in [ 1 .. n -> 1 .. n ] : \A i, j \in 1 .. n : f[i] = f[j] => i = j }

\* the tables that the orders of the chunks give
TablesOfOrders ==
  LET frames == [ n \in DOMAIN AllChunks |-> tidy_chunk(AllChunks[n]) ]
      tbl0 == IF Preloaded THEN << OldRow >> ELSE << >>
  IN { LoadInOrder(tbl0, frames, o) : o \in Orders(Len(frames)) }

\* no two records of the files share a key and differ
NoKeyClash ==
  \A i, j \in DOMAIN SourceRows :
    RecordKey(SourceRows[i]) = RecordKey(SourceRows[j]) => SourceRows[i] = SourceRows[j]

\* a load run has completed, none is in progress, and every chunk of the
\* files can be merged
CompleteLoad ==
  /\ \E p \in Procs : pc[p] = "done"
  /\ \A p \in Procs : ~Running(p)
  /\ Loadable

\* C10 as stated: after a complete load run accidents holds the same rows
\* whatever the order of the files and chunks.
C10_OrderIndependent ==
  CompleteLoad => \A t \in TablesOfOrders : RowSet(accidents) = RowSet(t)

\* C10 amended: after a complete load run accidents holds the same keys
\* whatever the order of the files and chunks, and the same rows when no two
\* records of the files share a key and differ.
C10_KeysOrderIndependent ==
  CompleteLoad =>
    \A t \in TablesOfOrders :
      /\ KeySet(accidents) = KeySet(t)
      /\ NoKeyClash => RowSet(accidents) = RowSet(t)

\* a run has completed over two files whose records share a key and differ
C10_Witness ==
  /\ pc[1] = "done"
  /\ Len(AllChunks) = 2
  /\ DOMAIN disk = Paths
  /\ ~NoKeyClash
  /\ Len(accidents) = 1

====
